---- MODULE Spec2Model ----
(***************************************************************************)
(* Model of the email analyzer agent: the Streamlit session of app.py      *)
(* (runCompleteAnalysis, the fingerprint and the JSON cache file, the chat *)
(* and single-email handlers), processEmailData of src/processor.py and    *)
(* the four retry loops of src/agent.py.                                   *)
(*                                                                         *)
(* Time is counted in quarter seconds, so that 20 s * 1.5 * 1.5 and        *)
(* (h + 2) s * 1.5 * 1.5 are integers.  The MD5 digest is taken as         *)
(* injective on its input string: a fingerprint is the digest's input.     *)
(***************************************************************************)
EXTENDS Integers, Sequences, FiniteSets, TLC

(***************************************************************************)
(* Bounds of the model.                                                    *)
(***************************************************************************)
MaxRecords == 7        \* length of the longest record set of the record source
MaxBatchSize == 3      \* largest batchSize passed to analyzeEmailBatch directly
MaxHistory == 2        \* chat and critique stop once the history is this long
MaxChatHistory == 14   \* the same for the sessions that only chat

(***************************************************************************)
(* Program constants.                                                      *)
(***************************************************************************)
maxRetries == 3
initialRetrySeconds == 20
hintMarginSeconds == 2
historyWindow == 10    \* chatWithEmailExpert: conversationHistory[-10:]
appBatchSize == 3

Secs(n) == n * 4
Max(a, b) == IF a >= b THEN a ELSE b

(***************************************************************************)
(* Records of the messages table (src/database.py), reduced to the fields  *)
(* the analysis reads.                                                     *)
(***************************************************************************)
Row(s, p, m, sent, opened, clicked, unsub) ==
    [subject |-> s, plaintext |-> p, message_body |-> m,
     mcsent |-> sent, mcopened |-> opened, mcclicked |-> clicked, mcunsub |-> unsub,
     nulls |-> {}]    \* the count columns that hold NULL; their value is not read

rowA == Row("ab", "c", "", 125, 1, 0, 0)
rowB == Row("a", "bc", "", 125, 1, 0, 0)      \* rowA with one character moved to the next field
rowC == Row("ab", "c", "", 12, 5, 10, 0)      \* rowA with the digits of the counts regrouped
rowD == Row("x", "", "y", 10, 9, 1, 0)
rowZ == Row("z", "", "", 0, 3, 0, 0)          \* never sent: dropped by processEmailData
rowAD == Row("abc125100x", "", "y", 10, 9, 1, 0)   \* one row spelling rowA followed by rowD
rowNeg == Row("n", "", "", 0 - 5, 1, 0, 0)    \* a negative sent count
rowNull == [Row("u", "", "", 1, 1, 0, 0) EXCEPT !.nulls = {"mcsent"}]   \* sent is NULL
rowNullOpened == [Row("o", "", "", 10, 7, 2, 0) EXCEPT !.nulls = {"mcopened"}]   \* opened is NULL

\* k-th row of a long record set: later rows score higher, so ranking reorders them
LongRow(k) == Row("s" \o ToString(k), "p", "m", 10, k, 0, 0)
LongSet(n) == [k \in 1..n |-> LongRow(k)]

\* record sets the record source of the app session holds
DataSets == { <<>>, <<rowZ>>, <<rowA>>, <<rowB>>, <<rowZ, rowD>> }

\* record sets that differ in one field, in several fields, in the number of
\* rows and in the order of the rows
HashDataSets ==
    { <<rowA>>, <<rowB>>, <<rowC>>, <<rowD>>, <<rowA, rowD>>, <<rowD, rowA>>, <<rowAD>> }

\* record sets of no row, of one batch, of two batches and of MaxRecords rows
FairDataSets == { LongSet(n) : n \in {0, 1, MaxRecords \div 2 + 1, MaxRecords} }

\* record sets with rows that were never sent, or whose sent count is
\* negative or NULL, alone and among rows that were sent
RawDataSets ==
    { <<>>, <<rowZ>>, <<rowNeg>>, <<rowNull>>, <<rowZ, rowNeg, rowNull>>,
      <<rowD>>, <<rowNull, rowD, rowZ>>, <<rowNullOpened>>,
      <<rowA, rowNeg, rowB, rowNull, rowC, rowZ, rowD>> }

\* record sets of every length up to MaxRecords
LongDataSets == { LongSet(n) : n \in 0..MaxRecords }

(***************************************************************************)
(* src/processor.py: processEmailData makes the count columns numeric      *)
(* (NULL becomes 0) and keeps the rows with mcsent > 0.                    *)
(***************************************************************************)
\* pd.to_numeric(df[col], errors='coerce').fillna(0)
toNumeric(r, col) == IF col \in r.nulls THEN 0 ELSE r[col]

numericRow(r) ==
    [r EXCEPT !.mcsent = toNumeric(r, "mcsent"),
              !.mcopened = toNumeric(r, "mcopened"),
              !.mcclicked = toNumeric(r, "mcclicked"),
              !.mcunsub = toNumeric(r, "mcunsub"),
              !.nulls = {}]

\* a float is a fraction, an infinity or NaN
Fraction(num, den) == [kind |-> "finite", num |-> num, den |-> den]
ZeroRate == Fraction(0, 1)
Infinite(sign) == [kind |-> sign, num |-> 0, den |-> 1]
NaN == [kind |-> "nan", num |-> 0, den |-> 1]

\* count / sent * 100 on two numeric columns: a division by zero gives an
\* infinity, or NaN for 0 / 0
PercentOf(count, sent) ==
    IF sent # 0 THEN Fraction(count * 100, sent)
    ELSE IF count > 0 THEN Infinite("inf")
    ELSE IF count < 0 THEN Infinite("-inf")
    ELSE NaN

\* .fillna(0)
fillna(x) == IF x.kind = "nan" THEN ZeroRate ELSE x

\* df['openRate'], df['clickRate'], df['unsubRate'] of one row, computed
\* on the whole frame before the rows are filtered
rateColumns(r) ==
    [openRate |-> fillna(PercentOf(r.mcopened, r.mcsent)),
     clickRate |-> fillna(PercentOf(r.mcclicked, r.mcsent)),
     unsubRate |-> fillna(PercentOf(r.mcunsub, r.mcsent))]

\* variant: the filter keeps the rows with mcsent >= 0
IsSent_OrZero(r) == r.mcsent >= 0

\* df[df['mcsent'] > 0]
IsSent(r) == r.mcsent > 0

\* variant: the frame is returned without the filter
processEmailData_Unfiltered(rows) == [k \in 1..Len(rows) |-> numericRow(rows[k])]

processEmailData(rows) ==
    SelectSeq([k \in 1..Len(rows) |-> numericRow(rows[k])], IsSent)

(***************************************************************************)
(* effectivenessScore = openRate*0.4 + clickRate*0.5 - unsubRate*0.1 with  *)
(* each rate = count / mcsent * 100.  Two scores are compared exactly, as  *)
(* fractions over mcsent (mcsent > 0 for every processed row).             *)
(***************************************************************************)
ScoreNumerator(r) == 4 * r.mcopened + 5 * r.mcclicked - r.mcunsub
ScoresAtLeast(a, b) == ScoreNumerator(a) * b.mcsent >= ScoreNumerator(b) * a.mcsent

\* sort_values('effectivenessScore', ascending=False); rows with equal scores
\* keep their order (the sort is an insertion sort below 16 rows)
RECURSIVE InsertRanked(_, _)
InsertRanked(r, sorted) ==
    IF sorted = <<>> THEN <<r>>
    ELSE IF ScoresAtLeast(Head(sorted), r)
         THEN <<Head(sorted)>> \o InsertRanked(r, Tail(sorted))
         ELSE <<r>> \o sorted

\* variant: the frame is batched in the order it was read
sortByScore_Unsorted(rows) == rows

RECURSIVE sortByScore(_)
sortByScore(rows) ==
    IF rows = <<>> THEN <<>>
    ELSE InsertRanked(rows[Len(rows)], sortByScore(SubSeq(rows, 1, Len(rows) - 1)))

(***************************************************************************)
(* app.py: calculateDataHash.  The fields of every row are concatenated    *)
(* with nothing between them, then digested.                               *)
(***************************************************************************)
RowString(r) ==
    r.subject \o r.plaintext \o r.message_body
    \o ToString(r.mcsent) \o ToString(r.mcopened)
    \o ToString(r.mcclicked) \o ToString(r.mcunsub)

RECURSIVE DataString(_)
DataString(rows) ==
    IF rows = <<>> THEN "" ELSE RowString(Head(rows)) \o DataString(Tail(rows))

md5hex(s) == "md5:" \o s

calculateDataHash(rows) == md5hex(DataString(rows))

(***************************************************************************)
(* Outcomes of model.generate_content.  A ResourceExhausted error is a     *)
(* daily-quota error ("daily") or a per-minute one ("rate"); its message   *)
(* carries no "retry in" text or a "retry in <h>s" the code parses.        *)
(***************************************************************************)
Texts == {"t1", "t2"}
HintSeconds == {5, 30}

NoHint == [tag |-> "none", secs |-> 0]
Hints == {NoHint} \cup { [tag |-> "secs", secs |-> h] : h \in HintSeconds }

NoOutcome == [kind |-> "none", hint |-> NoHint, text |-> "None"]
Success(t) == [kind |-> "ok", hint |-> NoHint, text |-> t]
Failure(k, h) == [kind |-> k, hint |-> h, text |-> "None"]

\* the synthesis call decides the stored result, so its text is an input;
\* the other call sites answer with one text
SiteTexts(s) == IF s = "final" THEN Texts ELSE {"t1"}

GenOutcomes(s) ==
    { Success(t) : t \in SiteTexts(s) }
    \cup { Failure("rate", h) : h \in Hints }
    \cup { Failure("daily", NoHint) }
    \cup { Failure("other", NoHint) }

(***************************************************************************)
(* src/agent.py: the retry loop shared by the four call sites.             *)
(***************************************************************************)
\* variant: a bare "except Exception" around the call
IsResourceExhausted_AnyException(err) == err.kind \in {"rate", "daily", "other"}

\* except gcp_exceptions.ResourceExhausted
IsResourceExhausted(err) == err.kind \in {"rate", "daily"}

\* variant: the budget is one attempt short
WillRetry_OneShort(err, att) == err.kind \in {"rate", "daily"} /\ att < maxRetries - 2

\* variant: the budget is one attempt long
WillRetry_OneMore(err, att) == err.kind \in {"rate", "daily"} /\ att < maxRetries

\* variant: a quota error is retried however many attempts were made
WillRetry_Always(err, att) == err.kind \in {"rate", "daily"}

\* if attempt < maxRetries - 1: ... else: raise
WillRetry(err, att) == IsResourceExhausted(err) /\ att < maxRetries - 1

\* variant: the hint never shortens the delay
ParsedRetryDelay_Max(err, delay) ==
    IF err.hint.tag = "secs"
    THEN Max(Secs(err.hint.secs + hintMarginSeconds), delay)
    ELSE delay

\* variant: the two seconds of margin are left out
ParsedRetryDelay_NoMargin(err, delay) ==
    IF err.hint.tag = "secs" THEN Secs(err.hint.secs) ELSE delay

\* retryDelay = float(match.group(1)) + 2 when the message parses
ParsedRetryDelay(err, delay) ==
    IF err.hint.tag = "secs" THEN Secs(err.hint.secs + hintMarginSeconds) ELSE delay

\* retryDelay *= 1.5
BackedOff(delay) == (delay * 3) \div 2

WaitRecord(err, delay) ==
    [err |-> err, before |-> delay,
     slept |-> ParsedRetryDelay(err, delay),
     after |-> BackedOff(ParsedRetryDelay(err, delay))]

(***************************************************************************)
(* src/agent.py: the batch loop of analyzeEmailBatch.                      *)
(***************************************************************************)
\* variant: a trailing partial batch is skipped
LoopHasIndex_FullOnly(idx, total, size) == size > 0 /\ idx + size <= total

\* range(0, totalEmails, batchSize) has a next index
LoopHasIndex(idx, total, size) == size > 0 /\ idx < total

\* variant: the slice starts one row late
BatchSlice_LateStart(frame, idx, size) ==
    SubSeq(frame, idx + 2, IF idx + size < Len(frame) THEN idx + size ELSE Len(frame))

\* emailDataFrame.iloc[i:i+batchSize]
BatchSlice(frame, idx, size) ==
    SubSeq(frame, idx + 1, IF idx + size < Len(frame) THEN idx + size ELSE Len(frame))

batchNumOf(idx, size) == (idx \div size) + 1
totalBatchesOf(total, size) == (total + size - 1) \div size

BatchRecord(frame, idx, size) ==
    [num |-> batchNumOf(idx, size),
     total |-> totalBatchesOf(Len(frame), size),
     rows |-> BatchSlice(frame, idx, size)]

\* variant: time.sleep(2) after every batch
PauseAfterBatch_Always(idx, total, size) == TRUE

\* if i + batchSize < totalEmails: time.sleep(2)
PauseAfterBatch(idx, total, size) == idx + size < total

(***************************************************************************)
(* app.py: the cache file.                                                 *)
(***************************************************************************)
NoFile == [kind |-> "absent", analysis_result |-> "None", email_context |-> "None",
           data_hash |-> "None", email_count |-> 0]
PartialFile == [NoFile EXCEPT !.kind = "partial"]
CacheEntry(result, context, hash, rows) ==
    [kind |-> "entry", analysis_result |-> result, email_context |-> context,
     data_hash |-> hash, email_count |-> Len(rows)]

\* a file that exists and that open() cannot read
UnreadableFile == [NoFile EXCEPT !.kind = "unreadable"]

\* a path that os.stat() refuses to look up (the cache directory cannot be
\* searched)
InaccessibleFile == [NoFile EXCEPT !.kind = "inaccessible"]

\* a file holding a JSON document that is not an object and is not falsy,
\* as another writer may leave it (an array, a string, a number)
NonObjectFile == [NoFile EXCEPT !.kind = "nonobject"]

\* a file holding a JSON object with a data_hash and no result fields
HashOnlyFile(hash) == [NoFile EXCEPT !.kind = "hash_only", !.data_hash = hash]

\* the kinds of file json.load parses
ParsedKinds == {"entry", "nonobject", "hash_only"}

\* CACHE_FILE.exists(): Path.exists() answers False when stat() fails with
\* "not found"; on another OSError it raises it or answers False, depending
\* on the Python release
ExistsOutcomes(file) ==
    IF file.kind = "absent" THEN {"False"}
    ELSE IF file.kind = "inaccessible" THEN {"False", "PermissionError"}
    ELSE {"True"}

\* what open(CACHE_FILE, 'r') and json.load raise on the file, "none" when
\* the file parses
ReadError(file) ==
    IF file.kind \in ParsedKinds THEN "none"
    ELSE IF file.kind = "partial" THEN "JSONDecodeError"
    ELSE "OSError"

\* variant: except json.JSONDecodeError
LoadCatches_DecodeOnly(exc) == exc = "JSONDecodeError"

\* except Exception, around open() and json.load()
LoadCatches(exc) == exc \in {"JSONDecodeError", "OSError"}

\* lines 49-55 on the file as open() finds it: "none" when the try block
\* returns the parsed document or its except branch returns None, or the
\* exception that leaves it
ReadException(file) ==
    IF ReadError(file) = "none" \/ LoadCatches(ReadError(file))
    THEN "none" ELSE ReadError(file)

\* what lines 49-55 return on the file as open() finds it (NoFile for None)
ReadResult(file) == IF ReadError(file) = "none" THEN file ELSE NoFile

\* the ways loadCachedAnalysis can end on the file: "none" when it returns,
\* or the exception that leaves it
LoadExceptions(file) ==
    { IF e = "False" THEN "none"
      ELSE IF e = "True" THEN ReadException(file)
           ELSE e : e \in ExistsOutcomes(file) }

\* loadCachedAnalysis: None when the file is missing or does not parse
loadCachedAnalysis(file) ==
    IF "True" \in ExistsOutcomes(file) THEN ReadResult(file) ELSE NoFile

\* the exception of lines 120-125 on what loadCachedAnalysis returned:
\* cached_data.get on a value that is not a dict, cached_data['analysis_result']
\* on a dict without that key whose data_hash matches; "none" otherwise
UseError(cached, hash) ==
    IF cached.kind = "nonobject" THEN "AttributeError"
    ELSE IF cached.kind = "hash_only" /\ cached.data_hash = hash THEN "KeyError"
    ELSE "none"

\* the exceptions that can leave the cache lookup of runCompleteAnalysis,
\* when loadCachedAnalysis can end in the ways ends and returns cached
LookupExceptions(ends, cached, hash) ==
    (ends \ {"none"})
    \cup (IF "none" \in ends THEN {UseError(cached, hash)} \ {"none"} ELSE {})

\* the cache lookup can end without an exception
LookupCompletes(ends, cached, hash) ==
    /\ "none" \in ends
    /\ UseError(cached, hash) = "none"

\* variant: the stored fingerprint is compared with nothing
CacheUsable_Never(cached, hash) == FALSE

\* if cached_data and cached_data.get('data_hash') == current_hash
CacheUsable(cached, hash) == cached.kind = "entry" /\ cached.data_hash = hash

\* saveAnalysisToCache: open(CACHE_FILE, 'w') truncates, json.dump writes;
\* an exception at either point is logged and swallowed
SaveOutcomes == {"written", "open_failed", "dump_failed"}
saveAnalysisToCache(file, entry, outcome) ==
    IF outcome = "written" THEN entry
    ELSE IF outcome = "dump_failed" THEN PartialFile
    ELSE file

\* email_data.nlargest(3, 'effectivenessScore').iloc[0]: the first of the rows
\* with the largest score
TopRow(rows) ==
    rows[CHOOSE k \in 1..Len(rows) :
            /\ \A j \in 1..Len(rows) : ScoresAtLeast(rows[k], rows[j])
            /\ \A j \in 1..(k - 1) : ~ScoresAtLeast(rows[j], rows[k])]

\* the context summary built after a successful analysis
ContextSummary(rows) ==
    "total=" \o ToString(Len(rows)) \o ";top=" \o TopRow(rows).subject

(***************************************************************************)
(* State.                                                                  *)
(***************************************************************************)
VARIABLES
    db,                    \* rows the record source returns
    cacheFile,             \* contents of cache/analysis_cache.json
    cacheSrc,              \* history: the rows the persisted entry was computed from
    gemini_model,          \* st.session_state.gemini_model is not None
    analysis_results,      \* st.session_state.analysis_results
    email_context,         \* st.session_state.email_context
    data_hash,             \* st.session_state.data_hash
    analysis_loaded,       \* st.session_state.analysis_loaded
    conversation_history,  \* st.session_state.conversation_history
    pc,                    \* "idle", "gen" (inside a retry loop), "returned"
    caller,                \* handler in progress: "run", "chat", "critique", "direct", "main", "clear"
    site,                  \* retry loop in progress: "batch", "final", "chat", "critique"
    force_refresh,         \* runCompleteAnalysis: force_refresh
    email_data,            \* runCompleteAnalysis: email_data
    current_hash,          \* runCompleteAnalysis: current_hash
    ranked,                \* analyzeEmailBatch: emailDataFrame after sort_values
    batchSize,             \* analyzeEmailBatch: batchSize
    i,                     \* analyzeEmailBatch: loop index i
    allAnalyses,           \* analyzeEmailBatch: allAnalyses
    attempt,               \* retry loop: attempt
    retryDelay,            \* retry loop: retryDelay, in quarter seconds
    waits,                 \* history: the time.sleep calls of the current retry loop
    lastOutcome,           \* history: outcome of the latest generate_content call
    genCalls,              \* history: generate_content calls of the current handler
    failures,              \* history: failed generate_content calls of the handler
    pauses,                \* history: inter-batch time.sleep(2) calls of the handler
    batches,               \* history: the batches the loop has formed
    raised,                \* exception that left the agent function
    result,                \* text the agent function returned
    ret,                   \* how the handler ended: "True", "False", "None", "raised"
    uiMessage,             \* st.error / st.warning / st.info shown by the handler
    cacheBefore,           \* history: cacheFile when the handler started
    cacheHit,              \* history: the handler took the cached-result path
    saveOutcome,           \* history: how saveAnalysisToCache ended in this handler
    prev,                  \* history: how the previous handler ended
    chatPrompt             \* history: what chatWithEmailExpert put into its prompt

vars == <<db, cacheFile, cacheSrc, gemini_model, analysis_results, email_context,
          data_hash, analysis_loaded, conversation_history, pc, caller, site,
          force_refresh, email_data, current_hash, ranked, batchSize, i,
          allAnalyses, attempt, retryDelay, waits, lastOutcome, genCalls,
          failures, pauses, batches, raised, result, ret, uiMessage,
          cacheBefore, cacheHit, saveOutcome, prev, chatPrompt>>

cacheVars == <<cacheFile, cacheSrc, saveOutcome>>
sessionVars == <<gemini_model, analysis_results, email_context, data_hash,
                 analysis_loaded, conversation_history>>
resultVars == <<analysis_results, email_context, data_hash>>
frameVars == <<caller, force_refresh, email_data, current_hash, ranked, batchSize>>
loopVars == <<i, allAnalyses, batches, pauses>>
retryVars == <<attempt, retryDelay, waits>>
callVars == <<lastOutcome, genCalls, failures>>
outVars == <<raised, result, ret, uiMessage>>

\* no chat prompt has been built
NoPrompt == [entries |-> <<>>, question |-> "None"]

\* no handler is running: its locals do not exist
IdleFrame ==
    /\ pc = "idle" /\ caller = "none" /\ site = "none"
    /\ force_refresh = FALSE /\ email_data = <<>> /\ current_hash = "None"
    /\ ranked = <<>> /\ batchSize = 0 /\ i = 0 /\ allAnalyses = <<>>
    /\ attempt = 0 /\ retryDelay = 0 /\ waits = <<>>
    /\ lastOutcome = NoOutcome /\ genCalls = 0 /\ failures = 0 /\ pauses = 0
    /\ batches = <<>> /\ raised = NoOutcome /\ result = "None"
    /\ ret = "None" /\ uiMessage = "none"
    /\ cacheBefore = NoFile /\ cacheHit = FALSE /\ saveOutcome = "none"
    /\ chatPrompt = NoPrompt

Init ==
    /\ db \in DataSets
    /\ cacheFile = NoFile /\ cacheSrc = <<>>
    /\ gemini_model = FALSE
    /\ analysis_results = "None" /\ email_context = "None" /\ data_hash = "None"
    /\ analysis_loaded = FALSE
    /\ conversation_history = <<>>
    /\ IdleFrame
    /\ prev = "none"

(***************************************************************************)
(* Entering a retry loop: maxRetries = 3, retryDelay = 20.                 *)
(***************************************************************************)
EnterRetryLoop(s) ==
    /\ site' = s
    /\ pc' = "gen"
    /\ attempt' = 0
    /\ retryDelay' = Secs(initialRetrySeconds)
    /\ waits' = <<>>

\* variant: the failed attempt is retried at once
SleepAndRetry_NoSleep(err) ==
    /\ attempt' = attempt + 1
    /\ UNCHANGED <<waits, retryDelay, pc, site>>

\* a failed attempt that is retried: sleep, then back off
SleepAndRetry(err) ==
    /\ waits' = Append(waits, WaitRecord(err, retryDelay))
    /\ retryDelay' = WaitRecord(err, retryDelay).after
    /\ attempt' = attempt + 1
    /\ UNCHANGED <<pc, site>>

(***************************************************************************)
(* app.py: what runCompleteAnalysis does with the outcome of               *)
(* analyzeEmailBatch.                                                      *)
(***************************************************************************)
\* the message of the except branch (lines 164-190)
RunErrorMessage(err) ==
    IF IsResourceExhausted(err)
    THEN IF err.kind = "daily" THEN "daily_limit"
         ELSE IF err.hint.tag = "secs" THEN "rate_limit_wait"
         ELSE "quota_error"
    ELSE "analysis_failed"

\* variant: the save sits in a finally block
CacheAfterRun_Always(succeeded, file, entry, outcome) ==
    saveAnalysisToCache(file, entry, outcome)

\* saveAnalysisToCache is reached only when analyzeEmailBatch returned
CacheAfterRun(succeeded, file, entry, outcome) ==
    IF succeeded THEN saveAnalysisToCache(file, entry, outcome) ELSE file

SrcAfterRun(succeeded, src, rows, outcome) ==
    IF succeeded /\ outcome = "written" THEN rows
    ELSE IF succeeded /\ outcome = "dump_failed" THEN <<>>
    ELSE src

\* variant: an exception of the save reaches the except branch of the run
RunSucceeds_SaveFatal(text) ==
    \E outcome \in SaveOutcomes :
        /\ cacheFile' = CacheAfterRun(TRUE, cacheFile,
                             CacheEntry(text, ContextSummary(email_data),
                                        current_hash, email_data), outcome)
        /\ cacheSrc' = SrcAfterRun(TRUE, cacheSrc, email_data, outcome)
        /\ saveOutcome' = outcome
        /\ analysis_results' = text
        /\ email_context' = ContextSummary(email_data)
        /\ data_hash' = current_hash
        /\ ret' = IF outcome = "written" THEN "True" ELSE "False"
        /\ uiMessage' = IF outcome = "written" THEN "none" ELSE "analysis_failed"

RunSucceeds(text) ==
    /\ analysis_results' = text
    /\ email_context' = ContextSummary(email_data)
    /\ data_hash' = current_hash
    /\ \E outcome \in SaveOutcomes :
          /\ cacheFile' = CacheAfterRun(TRUE, cacheFile,
                               CacheEntry(text, ContextSummary(email_data),
                                          current_hash, email_data), outcome)
          /\ cacheSrc' = SrcAfterRun(TRUE, cacheSrc, email_data, outcome)
          /\ saveOutcome' = outcome
    /\ ret' = "True"
    /\ uiMessage' = "none"

\* variant: the except branch resets the session's result
RunFails_ClearsResults(err) ==
    /\ cacheFile' = cacheFile
    /\ cacheSrc' = cacheSrc
    /\ ret' = "False"
    /\ uiMessage' = RunErrorMessage(err)
    /\ analysis_results' = "None" /\ email_context' = "None" /\ data_hash' = "None"
    /\ UNCHANGED saveOutcome

RunFails(err) ==
    /\ cacheFile' = CacheAfterRun(FALSE, cacheFile,
                         CacheEntry("None", "None", current_hash, email_data), "written")
    /\ cacheSrc' = SrcAfterRun(FALSE, cacheSrc, email_data, "written")
    /\ ret' = "False"
    /\ uiMessage' = RunErrorMessage(err)
    /\ UNCHANGED <<resultVars, saveOutcome>>

\* variant: the error is swallowed and what was collected so far is returned
BatchCallRaises_ReturnsPartial(who, err) ==
    /\ raised' = NoOutcome
    /\ result' = "partial"
    /\ pc' = "returned"
    /\ IF who = "run" THEN RunSucceeds("partial")
       ELSE /\ ret' = "None" /\ uiMessage' = "none"
            /\ UNCHANGED <<resultVars, cacheVars>>

\* analyzeEmailBatch raises err to its caller
BatchCallRaises(who, err) ==
    /\ raised' = err
    /\ result' = "None"
    /\ pc' = "returned"
    /\ IF who = "run" THEN RunFails(err)
       ELSE /\ ret' = "raised" /\ uiMessage' = "none"
            /\ UNCHANGED <<resultVars, cacheVars>>

\* analyzeEmailBatch returns text to its caller
BatchCallReturns(who, text) ==
    /\ raised' = NoOutcome
    /\ result' = text
    /\ pc' = "returned"
    /\ IF who = "run" THEN RunSucceeds(text)
       ELSE /\ ret' = "None" /\ uiMessage' = "none"
            /\ UNCHANGED <<resultVars, cacheVars>>

(***************************************************************************)
(* src/agent.py: analyzeEmailBatch, from its entry to its first            *)
(* generate_content call.                                                  *)
(***************************************************************************)
EnterAnalyzeEmailBatch(who, frame, size) ==
    /\ ranked' = sortByScore(frame)
    /\ batchSize' = size
    /\ i' = 0
    /\ allAnalyses' = <<>>
    /\ pauses' = 0
    /\ UNCHANGED <<callVars, chatPrompt>>
    /\ IF size = 0
       THEN \* range() with a zero step raises ValueError
            /\ BatchCallRaises(who, Failure("value_error", NoHint))
            /\ UNCHANGED <<site, retryVars, batches>>
       ELSE /\ UNCHANGED <<outVars, cacheVars, resultVars>>
            /\ IF LoopHasIndex(0, Len(frame), size)
               THEN /\ EnterRetryLoop("batch")
                    /\ batches' = <<BatchRecord(sortByScore(frame), 0, size)>>
               ELSE /\ EnterRetryLoop("final")
                    /\ batches' = <<>>

(***************************************************************************)
(* The record source changes between handlers (a handler reads it once).   *)
(***************************************************************************)
ChangeDataTo(sets) ==
    /\ pc = "idle"
    /\ db' \in sets \ {db}
    /\ prev' = "none"
    /\ UNCHANGED <<cacheVars, sessionVars, pc, site, frameVars, loopVars, chatPrompt, retryVars,
                   callVars, outVars, cacheBefore, cacheHit>>

ChangeData == ChangeDataTo(DataSets)
ChangeHashData == ChangeDataTo(HashDataSets)
ChangeRawData == ChangeDataTo(RawDataSets)

(***************************************************************************)
(* app.py: runCompleteAnalysis, from its entry to its first                *)
(* generate_content call or to its return.                                 *)
(***************************************************************************)
\* variant: the cache is looked up whatever force_refresh is
ChecksCache_Always(force) == TRUE

\* if not force_refresh: cached_data = loadCachedAnalysis() ...
ChecksCache(force) == ~force

\* lines 119-163 of runCompleteAnalysis, from what loadCachedAnalysis did:
\* ends are the ways it can end, cached is what it returns
AfterLookup(force, ends, cached) ==
    \/ \* the cached analysis is used
       /\ processEmailData(db) # <<>>
       /\ ChecksCache(force)
       /\ LookupCompletes(ends, cached, calculateDataHash(processEmailData(db)))
       /\ CacheUsable(cached,
                      calculateDataHash(processEmailData(db)))
       /\ email_data' = processEmailData(db)
       /\ current_hash' = calculateDataHash(processEmailData(db))
       /\ analysis_results' = cached.analysis_result
       /\ email_context' = cached.email_context
       /\ data_hash' = calculateDataHash(processEmailData(db))
       /\ cacheHit' = TRUE
       /\ ret' = "True" /\ uiMessage' = "none" /\ pc' = "returned"
       /\ UNCHANGED <<cacheVars, gemini_model, site, ranked, batchSize, loopVars, chatPrompt,
                      retryVars, callVars, raised, result>>
    \/ \* the cache lookup raises: the exception leaves runCompleteAnalysis
       /\ processEmailData(db) # <<>>
       /\ ChecksCache(force)
       /\ \E exc \in LookupExceptions(ends, cached,
                                calculateDataHash(processEmailData(db))) :
             raised' = Failure(exc, NoHint)
       /\ email_data' = processEmailData(db)
       /\ current_hash' = calculateDataHash(processEmailData(db))
       /\ ret' = "raised" /\ uiMessage' = "none" /\ pc' = "returned"
       /\ UNCHANGED <<cacheVars, gemini_model, resultVars, site, ranked, batchSize,
                      loopVars, chatPrompt, retryVars, callVars, result, cacheHit>>
    \/ \* initializeGeminiAgent raises
       /\ processEmailData(db) # <<>>
       /\ ~ChecksCache(force) \/ LookupCompletes(ends, cached, calculateDataHash(processEmailData(db)))
       /\ ~ChecksCache(force) \/ ~CacheUsable(cached,
                                 calculateDataHash(processEmailData(db)))
       /\ ~gemini_model
       /\ email_data' = processEmailData(db)
       /\ current_hash' = calculateDataHash(processEmailData(db))
       /\ ret' = "False" /\ uiMessage' = "init_failed" /\ pc' = "returned"
       /\ UNCHANGED <<cacheVars, gemini_model, resultVars, site, ranked, batchSize,
                      loopVars, chatPrompt, retryVars, callVars, raised, result, cacheHit>>
    \/ \* analyzeEmailBatch(email_data, model, batchSize=3) is entered
       /\ processEmailData(db) # <<>>
       /\ ~ChecksCache(force) \/ LookupCompletes(ends, cached, calculateDataHash(processEmailData(db)))
       /\ ~ChecksCache(force) \/ ~CacheUsable(cached,
                                 calculateDataHash(processEmailData(db)))
       /\ email_data' = processEmailData(db)
       /\ current_hash' = calculateDataHash(processEmailData(db))
       /\ gemini_model' = TRUE
       /\ EnterAnalyzeEmailBatch("run", processEmailData(db), appBatchSize)
       /\ UNCHANGED cacheHit

StartRun(force) ==
    /\ pc = "idle"
    /\ caller' = "run"
    /\ force_refresh' = force
    /\ cacheBefore' = cacheFile
    /\ UNCHANGED <<db, prev, conversation_history>>
    /\ \/ \* processEmailData raises
          /\ ret' = "False" /\ uiMessage' = "load_failed" /\ pc' = "returned"
          /\ UNCHANGED <<cacheVars, gemini_model, resultVars, site, email_data,
                         current_hash, ranked, batchSize, loopVars, chatPrompt, retryVars,
                         callVars, raised, result, cacheHit>>
       \/ \* email_data.empty
          /\ processEmailData(db) = <<>>
          /\ ret' = "False" /\ uiMessage' = "no_data" /\ pc' = "returned"
          /\ UNCHANGED <<cacheVars, gemini_model, resultVars, site, email_data,
                         current_hash, ranked, batchSize, loopVars, chatPrompt, retryVars,
                         callVars, raised, result, cacheHit>>
       \/ AfterLookup(force, LoadExceptions(cacheFile), loadCachedAnalysis(cacheFile))

\* a variant of LoadedAtStart that leaves the flag for the run to set
LoadedAtStart_Kept(flag) == flag

\* line 198: the flag is assigned before runCompleteAnalysis is called
LoadedAtStart(flag) == TRUE

\* if not st.session_state.analysis_loaded: ... runCompleteAnalysis()
AutoLoad ==
    /\ ~analysis_loaded
    /\ analysis_loaded' = LoadedAtStart(analysis_loaded)
    /\ StartRun(FALSE)

\* "Run Complete Analysis" button
RunButton ==
    /\ analysis_loaded
    /\ UNCHANGED analysis_loaded
    /\ StartRun(FALSE)

\* "Force Refresh" button
ForceRefreshButton ==
    /\ analysis_loaded
    /\ UNCHANGED analysis_loaded
    /\ StartRun(TRUE)

(***************************************************************************)
(* src/agent.py: one generate_content call of the per-batch retry loop,    *)
(* with everything that follows it up to the next call.                    *)
(***************************************************************************)
BatchAttempt ==
    /\ pc = "gen" /\ site = "batch"
    /\ UNCHANGED <<db, prev, frameVars, gemini_model, analysis_loaded,
                   conversation_history, cacheBefore, cacheHit, chatPrompt>>
    /\ \E out \in GenOutcomes("batch") :
          /\ lastOutcome' = out
          /\ genCalls' = genCalls + 1
          /\ \/ \* allAnalyses.append(...); break; pause; next batch or synthesis
                /\ out.kind = "ok"
                /\ allAnalyses' = Append(allAnalyses,
                       [num |-> batchNumOf(i, batchSize), text |-> out.text])
                /\ pauses' = IF PauseAfterBatch(i, Len(ranked), batchSize)
                              THEN pauses + 1 ELSE pauses
                /\ i' = i + batchSize
                /\ IF LoopHasIndex(i + batchSize, Len(ranked), batchSize)
                   THEN /\ EnterRetryLoop("batch")
                        /\ batches' = Append(batches,
                               BatchRecord(ranked, i + batchSize, batchSize))
                   ELSE /\ EnterRetryLoop("final")
                        /\ UNCHANGED batches
                /\ UNCHANGED <<failures, outVars, cacheVars, resultVars>>
             \/ \* except ResourceExhausted, attempt < maxRetries - 1
                /\ out.kind # "ok"
                /\ WillRetry(out, attempt)
                /\ SleepAndRetry(out)
                /\ failures' = failures + 1
                /\ UNCHANGED <<loopVars, chatPrompt, outVars, cacheVars, resultVars>>
             \/ \* raise
                /\ out.kind # "ok"
                /\ ~WillRetry(out, attempt)
                /\ failures' = failures + 1
                /\ BatchCallRaises(caller, out)
                /\ UNCHANGED <<site, loopVars, chatPrompt, retryVars>>

(***************************************************************************)
(* src/agent.py: one generate_content call of the synthesis retry loop.    *)
(***************************************************************************)
FinalAttempt ==
    /\ pc = "gen" /\ site = "final"
    /\ UNCHANGED <<db, prev, frameVars, gemini_model, analysis_loaded,
                   conversation_history, cacheBefore, cacheHit, loopVars, chatPrompt>>
    /\ \E out \in GenOutcomes("final") :
          /\ lastOutcome' = out
          /\ genCalls' = genCalls + 1
          /\ \/ \* return finalResponse.text
                /\ out.kind = "ok"
                /\ BatchCallReturns(caller, out.text)
                /\ UNCHANGED <<failures, site, retryVars>>
             \/ \* except ResourceExhausted, attempt < maxRetries - 1
                /\ out.kind # "ok"
                /\ WillRetry(out, attempt)
                /\ SleepAndRetry(out)
                /\ failures' = failures + 1
                /\ UNCHANGED <<outVars, cacheVars, resultVars>>
             \/ \* raise
                /\ out.kind # "ok"
                /\ ~WillRetry(out, attempt)
                /\ failures' = failures + 1
                /\ BatchCallRaises(caller, out)
                /\ UNCHANGED <<site, retryVars>>

(***************************************************************************)
(* A direct call analyzeEmailBatch(processEmailData(), model, batchSize),  *)
(* as main.py makes it, for any batch size.                                *)
(***************************************************************************)
AnalyzeEmailBatchCall ==
    /\ pc = "idle"
    /\ \E size \in (0 - 1)..MaxBatchSize :
          /\ caller' = "direct"
          /\ email_data' = processEmailData(db)
          /\ EnterAnalyzeEmailBatch("direct", processEmailData(db), size)
    /\ UNCHANGED <<db, prev, sessionVars, force_refresh, current_hash, cacheBefore,
                   cacheHit>>

(***************************************************************************)
(* main.py: main(), from its entry to its first generate_content call or   *)
(* to its return.  It uses neither the session state nor the cache.        *)
(***************************************************************************)
MainRun ==
    /\ pc = "idle"
    /\ caller' = "main"
    /\ cacheBefore' = cacheFile
    /\ UNCHANGED <<db, prev, sessionVars, force_refresh, current_hash, cacheHit>>
    /\ \/ \* processEmailData raises: main re-raises
          /\ raised' = Failure("other", NoHint)
          /\ ret' = "raised" /\ pc' = "returned"
          /\ UNCHANGED <<cacheVars, site, email_data, ranked, batchSize, loopVars, chatPrompt,
                         retryVars, callVars, result, uiMessage>>
       \/ \* processedEmails.empty: "No email data to analyze", return
          /\ processEmailData(db) = <<>>
          /\ ret' = "None" /\ uiMessage' = "no_data" /\ pc' = "returned"
          /\ UNCHANGED <<cacheVars, site, email_data, ranked, batchSize, loopVars, chatPrompt,
                         retryVars, callVars, raised, result>>
       \/ \* initializeGeminiAgent raises: main re-raises
          /\ processEmailData(db) # <<>>
          /\ email_data' = processEmailData(db)
          /\ raised' = Failure("other", NoHint)
          /\ ret' = "raised" /\ pc' = "returned"
          /\ UNCHANGED <<cacheVars, site, ranked, batchSize, loopVars, chatPrompt, retryVars,
                         callVars, result, uiMessage>>
       \/ \* analyzeEmailBatch(processedEmails, geminiModel, batchSize=3)
          /\ processEmailData(db) # <<>>
          /\ email_data' = processEmailData(db)
          /\ EnterAnalyzeEmailBatch("main", processEmailData(db), appBatchSize)

(***************************************************************************)
(* app.py: the chat input handler.                                         *)
(***************************************************************************)
UserEntry(content) == [role |-> "user", content |-> content]
AssistantEntry(content) == [role |-> "assistant", content |-> content]

\* error_msg of the chat handler's except branch
ChatErrorMessage(err) ==
    IF IsResourceExhausted(err) /\ err.kind = "daily" THEN "daily_limit" ELSE "error"

\* conversation_history[:-1]
ExcludeCurrent(history) == SubSeq(history, 1, Len(history) - 1)

\* variant: conversationHistory[:10]
LastMessages_First(history, n) ==
    SubSeq(history, 1, IF Len(history) < n THEN Len(history) ELSE n)

\* conversationHistory[-10:]
LastMessages(history, n) ==
    SubSeq(history, IF Len(history) > n THEN Len(history) - n + 1 ELSE 1, Len(history))

\* the "User: ..." and "Expert: ..." paragraphs of conversationText; an
\* entry with another role adds nothing
PromptEntries(history) ==
    LET kept == SelectSeq(LastMessages(history, historyWindow),
                          LAMBDA msg : msg.role \in {"user", "assistant"})
    IN  [k \in 1..Len(kept) |->
            [label |-> IF kept[k].role = "user" THEN "User" ELSE "Expert",
             content |-> kept[k].content]]

\* variant: the handlers of the chat tab do not look at the model handle
ModelMissing_Never(model) == FALSE

\* st.session_state.gemini_model is None
ModelMissing(model) == ~model

\* the chat input handler up to the first generate_content call, for the
\* questions a user may type and a cap on the length of the history
ChatInputOf(questions, cap) ==
    /\ pc = "idle"
    /\ analysis_loaded
    /\ caller' = "chat"
    /\ UNCHANGED <<db, prev, cacheVars, gemini_model, resultVars, analysis_loaded,
                   force_refresh, email_data, current_hash, ranked, batchSize,
                   loopVars, callVars, outVars, cacheBefore, cacheHit>>
    /\ \/ \* st.warning: the agent is not initialized
          /\ ModelMissing(gemini_model)
          /\ pc' = "returned"
          /\ UNCHANGED <<conversation_history, site, retryVars, chatPrompt>>
       \/ \* the question is appended and chatWithEmailExpert is entered
          /\ ~ModelMissing(gemini_model)
          /\ Len(conversation_history) + 2 <= cap
          /\ \E user_question \in questions :
                /\ conversation_history' =
                       Append(conversation_history, UserEntry(user_question))
                /\ chatPrompt' =
                       [entries |-> PromptEntries(ExcludeCurrent(
                                       Append(conversation_history,
                                              UserEntry(user_question)))),
                        question |-> user_question]
          /\ EnterRetryLoop("chat")

ChatInput == ChatInputOf({"question"}, MaxHistory)

\* the questions of a session differ: the n-th is "q<n>"
ChatTurn ==
    ChatInputOf({"q" \o ToString(Len(conversation_history) \div 2 + 1)}, MaxChatHistory)

\* variant: the except branch shows the error and appends nothing
HistoryAfterChatError_Unrecorded(history, error_msg) == history

\* st.session_state.conversation_history.append({'role': 'assistant',
\* 'content': error_msg})
HistoryAfterChatError(history, error_msg) ==
    Append(history, AssistantEntry(error_msg))

ChatAttempt ==
    /\ pc = "gen" /\ site = "chat"
    /\ UNCHANGED <<db, prev, cacheVars, gemini_model, resultVars, analysis_loaded,
                   frameVars, loopVars, chatPrompt, cacheBefore, cacheHit, ret>>
    /\ \E out \in GenOutcomes("chat") :
          /\ lastOutcome' = out
          /\ genCalls' = genCalls + 1
          /\ \/ \* return response.text; the answer is appended
                /\ out.kind = "ok"
                /\ raised' = NoOutcome /\ result' = out.text /\ pc' = "returned"
                /\ conversation_history' =
                       Append(conversation_history, AssistantEntry(out.text))
                /\ UNCHANGED <<failures, site, retryVars, uiMessage>>
             \/ \* except ResourceExhausted, attempt < maxRetries - 1
                /\ out.kind # "ok"
                /\ WillRetry(out, attempt)
                /\ SleepAndRetry(out)
                /\ failures' = failures + 1
                /\ UNCHANGED <<raised, result, uiMessage, conversation_history>>
             \/ \* raise; the error message is appended
                /\ out.kind # "ok"
                /\ ~WillRetry(out, attempt)
                /\ failures' = failures + 1
                /\ raised' = out /\ result' = "None" /\ pc' = "returned"
                /\ uiMessage' = ChatErrorMessage(out)
                /\ conversation_history' =
                       HistoryAfterChatError(conversation_history, ChatErrorMessage(out))
                /\ UNCHANGED <<site, retryVars>>

(***************************************************************************)
(* app.py: the "Analyze This Email" button.                                *)
(***************************************************************************)
AnalyzeThisEmailOf(cap) ==
    /\ pc = "idle"
    /\ analysis_loaded
    /\ caller' = "critique"
    /\ UNCHANGED <<db, prev, cacheVars, sessionVars, force_refresh, email_data,
                   current_hash, ranked, batchSize, loopVars, chatPrompt, callVars, raised,
                   result, ret, cacheBefore, cacheHit>>
    /\ \E email_content \in {"", "body"} :
          \/ /\ email_content = ""
             /\ uiMessage' = "need_content" /\ pc' = "returned"
             /\ UNCHANGED <<site, retryVars>>
          \/ /\ email_content # ""
             /\ ModelMissing(gemini_model)
             /\ uiMessage' = "need_model" /\ pc' = "returned"
             /\ UNCHANGED <<site, retryVars>>
          \/ /\ email_content # ""
             /\ ~ModelMissing(gemini_model)
             /\ Len(conversation_history) + 2 <= cap
             /\ EnterRetryLoop("critique")
             /\ UNCHANGED uiMessage

AnalyzeThisEmail == AnalyzeThisEmailOf(MaxHistory)
CritiqueTurn == AnalyzeThisEmailOf(MaxChatHistory)

CritiqueAttempt ==
    /\ pc = "gen" /\ site = "critique"
    /\ UNCHANGED <<db, prev, cacheVars, gemini_model, resultVars, analysis_loaded,
                   frameVars, loopVars, chatPrompt, cacheBefore, cacheHit, ret>>
    /\ \E out \in GenOutcomes("critique") :
          /\ lastOutcome' = out
          /\ genCalls' = genCalls + 1
          /\ \/ \* return response.text; the request and the answer are appended
                /\ out.kind = "ok"
                /\ raised' = NoOutcome /\ result' = out.text /\ pc' = "returned"
                /\ conversation_history' =
                       conversation_history
                       \o <<UserEntry("analyze this email"), AssistantEntry(out.text)>>
                /\ UNCHANGED <<failures, site, retryVars, uiMessage>>
             \/ \* except ResourceExhausted, attempt < maxRetries - 1
                /\ out.kind # "ok"
                /\ WillRetry(out, attempt)
                /\ SleepAndRetry(out)
                /\ failures' = failures + 1
                /\ UNCHANGED <<raised, result, uiMessage, conversation_history>>
             \/ \* raise; st.error only
                /\ out.kind # "ok"
                /\ ~WillRetry(out, attempt)
                /\ failures' = failures + 1
                /\ raised' = out /\ result' = "None" /\ pc' = "returned"
                /\ uiMessage' = ChatErrorMessage(out)
                /\ UNCHANGED <<site, retryVars, conversation_history>>

(***************************************************************************)
(* app.py: the sidebar buttons, and a new browser session.                 *)
(***************************************************************************)
ClearChat ==
    /\ pc = "idle"
    /\ analysis_loaded
    /\ conversation_history # <<>>
    /\ conversation_history' = <<>>
    /\ UNCHANGED <<db, prev, cacheVars, gemini_model, resultVars, analysis_loaded,
                   pc, site, frameVars, loopVars, chatPrompt, retryVars, callVars, outVars,
                   cacheBefore, cacheHit>>

\* variant: CACHE_FILE.unlink() with no existence test before it
ClearOutcomes_NoTest(file) ==
    IF file.kind = "absent" THEN {"FileNotFoundError"} ELSE {"cleared"}

\* if CACHE_FILE.exists(): unlink(), st.success("Cache cleared!")
\* else: st.info("No cache file found."); an exception of exists() leaves
\* the handler
ClearOutcomes(file) ==
    { IF e = "True" THEN "cleared"
      ELSE IF e = "False" THEN "no_cache_file"
      ELSE e : e \in ExistsOutcomes(file) }

\* "Clear Cache" button
ClearCache ==
    /\ pc = "idle"
    /\ analysis_loaded
    /\ caller' = "clear"
    /\ pc' = "returned"
    /\ cacheBefore' = cacheFile
    /\ \E out \in ClearOutcomes(cacheFile) :
          /\ cacheFile' = IF out = "cleared" THEN NoFile ELSE cacheFile
          /\ cacheSrc' = IF out = "cleared" THEN <<>> ELSE cacheSrc
          /\ uiMessage' = IF out \in {"cleared", "no_cache_file"} THEN out ELSE "none"
          /\ raised' = IF out \in {"cleared", "no_cache_file"}
                       THEN NoOutcome ELSE Failure(out, NoHint)
          /\ ret' = IF out \in {"cleared", "no_cache_file"} THEN "None" ELSE "raised"
    /\ UNCHANGED <<db, prev, saveOutcome, sessionVars, site, force_refresh,
                   email_data, current_hash, ranked, batchSize, loopVars, chatPrompt,
                   retryVars, callVars, result, cacheHit>>

\* the session state of lines 85-97 is created anew; the cache file stays
NewSession ==
    /\ pc = "idle"
    /\ analysis_loaded
    /\ gemini_model' = FALSE
    /\ analysis_results' = "None" /\ email_context' = "None" /\ data_hash' = "None"
    /\ analysis_loaded' = FALSE
    /\ conversation_history' = <<>>
    /\ prev' = "none"
    /\ UNCHANGED <<db, cacheVars, pc, site, frameVars, loopVars, chatPrompt, retryVars, callVars,
                   outVars, cacheBefore, cacheHit>>

(***************************************************************************)
(* The handler has ended: its locals are gone.                             *)
(***************************************************************************)
PrevAfter ==
    IF caller = "run" /\ ret = "True" /\ ~cacheHit /\ failures = 0
    THEN IF saveOutcome = "written" THEN "fresh_saved" ELSE "fresh_unsaved"
    ELSE IF caller = "clear" /\ ret # "raised" THEN "cleared"
    ELSE "none"

Return ==
    /\ pc = "returned"
    /\ pc' = "idle" /\ caller' = "none" /\ site' = "none"
    /\ force_refresh' = FALSE /\ email_data' = <<>> /\ current_hash' = "None"
    /\ ranked' = <<>> /\ batchSize' = 0 /\ i' = 0 /\ allAnalyses' = <<>>
    /\ attempt' = 0 /\ retryDelay' = 0 /\ waits' = <<>>
    /\ lastOutcome' = NoOutcome /\ genCalls' = 0 /\ failures' = 0 /\ pauses' = 0
    /\ batches' = <<>> /\ raised' = NoOutcome /\ result' = "None"
    /\ ret' = "None" /\ uiMessage' = "none"
    /\ cacheBefore' = NoFile /\ cacheHit' = FALSE /\ saveOutcome' = "none"
    /\ chatPrompt' = NoPrompt
    /\ prev' = PrevAfter
    /\ UNCHANGED <<db, cacheFile, cacheSrc, sessionVars>>

Next ==
    \/ ChangeData
    \/ AutoLoad
    \/ RunButton
    \/ ForceRefreshButton
    \/ BatchAttempt
    \/ FinalAttempt
    \/ ChatInput
    \/ ChatAttempt
    \/ AnalyzeThisEmail
    \/ CritiqueAttempt
    \/ ClearChat
    \/ ClearCache
    \/ NewSession
    \/ Return

Spec == Init /\ [][Next]_vars

\* the analysis handlers of the app over record sets of every length
InitRuns ==
    /\ db \in LongDataSets
    /\ cacheFile = NoFile /\ cacheSrc = <<>>
    /\ gemini_model = FALSE
    /\ analysis_results = "None" /\ email_context = "None" /\ data_hash = "None"
    /\ analysis_loaded = FALSE
    /\ conversation_history = <<>>
    /\ IdleFrame
    /\ prev = "none"

NextRuns ==
    \/ AutoLoad
    \/ RunButton
    \/ ForceRefreshButton
    \/ BatchAttempt
    \/ FinalAttempt
    \/ ClearCache
    \/ NewSession
    \/ Return

SpecRuns == InitRuns /\ [][NextRuns]_vars

\* the analysis handlers with the handler's thread running on: a
\* generate_content call returns or raises, and a time.sleep ends
InitFair ==
    /\ db \in FairDataSets
    /\ cacheFile = NoFile /\ cacheSrc = <<>>
    /\ gemini_model = FALSE
    /\ analysis_results = "None" /\ email_context = "None" /\ data_hash = "None"
    /\ analysis_loaded = FALSE
    /\ conversation_history = <<>>
    /\ IdleFrame
    /\ prev = "none"

SpecRunsFair ==
    /\ InitFair /\ [][NextRuns]_vars
    /\ WF_vars(BatchAttempt)
    /\ WF_vars(FinalAttempt)

\* the cache file is truncated or made unreadable, or its directory is
\* closed, from outside the app
CacheFileDamaged ==
    /\ pc = "idle"
    /\ cacheFile' \in {PartialFile, UnreadableFile, InaccessibleFile} \ {cacheFile}
    /\ cacheSrc' = <<>>
    /\ prev' = "none"
    /\ UNCHANGED <<db, saveOutcome, sessionVars, pc, site, frameVars, loopVars, chatPrompt,
                   retryVars, callVars, outVars, cacheBefore, cacheHit>>

\* another writer leaves a JSON document of its own at the cache path: one
\* that is not an object, or an object with the fingerprint of the current
\* records and no result fields
CacheFileRewritten ==
    /\ pc = "idle"
    /\ cacheFile' \in {NonObjectFile,
                       HashOnlyFile(calculateDataHash(processEmailData(db)))}
                      \ {cacheFile}
    /\ cacheSrc' = <<>>
    /\ prev' = "none"
    /\ UNCHANGED <<db, saveOutcome, sessionVars, pc, site, frameVars, loopVars, chatPrompt,
                   retryVars, callVars, outVars, cacheBefore, cacheHit>>

\* the analysis handlers and the cache file, in every state the file can be in
NextCache ==
    \/ CacheFileDamaged
    \/ AutoLoad
    \/ RunButton
    \/ ForceRefreshButton
    \/ BatchAttempt
    \/ FinalAttempt
    \/ ClearCache
    \/ Return

SpecCache == Init /\ [][NextCache]_vars

\* the same with a cache file that other writers replace
NextForeign ==
    \/ CacheFileRewritten
    \/ CacheFileDamaged
    \/ ChangeData
    \/ AutoLoad
    \/ RunButton
    \/ ForceRefreshButton
    \/ BatchAttempt
    \/ FinalAttempt
    \/ ClearCache
    \/ Return

SpecForeign == Init /\ [][NextForeign]_vars

(***************************************************************************)
(* app.py: loadCachedAnalysis step by step, while another session of the   *)
(* app works on the same cache file.                                       *)
(***************************************************************************)
\* an unforced runCompleteAnalysis (automatic or by the Run button), from its
\* entry to the answer of CACHE_FILE.exists() at line 46; cacheBefore is the
\* file that exists() looked at
RunToExistsCheck ==
    /\ pc = "idle"
    /\ processEmailData(db) # <<>>
    /\ ChecksCache(FALSE)
    /\ pc' = "exists"
    /\ caller' = "run" /\ force_refresh' = FALSE
    /\ analysis_loaded' = TRUE
    /\ cacheBefore' = cacheFile
    /\ email_data' = processEmailData(db)
    /\ current_hash' = calculateDataHash(processEmailData(db))
    /\ UNCHANGED <<db, prev, cacheVars, gemini_model, resultVars, conversation_history,
                   site, ranked, batchSize, loopVars, chatPrompt, retryVars, callVars,
                   outVars, cacheHit>>

\* the ways loadCachedAnalysis can end when exists() looked at the file
\* checked and open() finds the file opened
SteppedLoadExceptions(checked, opened) ==
    { IF e = "False" THEN "none"
      ELSE IF e = "True" THEN ReadException(opened)
           ELSE e : e \in ExistsOutcomes(checked) }

\* what loadCachedAnalysis returns then (NoFile for None)
SteppedLoad(checked, opened) ==
    IF "True" \in ExistsOutcomes(checked) THEN ReadResult(opened) ELSE NoFile

\* lines 49-55 on the file as it is now, and the rest of runCompleteAnalysis
\* to its first generate_content call or to its return
ReadAfterExists ==
    /\ pc = "exists"
    /\ UNCHANGED <<db, prev, conversation_history, analysis_loaded, caller,
                   force_refresh, cacheBefore>>
    /\ AfterLookup(force_refresh, SteppedLoadExceptions(cacheBefore, cacheFile),
                   SteppedLoad(cacheBefore, cacheFile))

\* the other session works between the handlers of this one and between the
\* two steps of its loadCachedAnalysis
OtherSessionStep(file, src) ==
    /\ pc \in {"idle", "exists"}
    /\ cacheFile' = file
    /\ cacheSrc' = src
    /\ prev' = "none"
    /\ UNCHANGED <<db, saveOutcome, sessionVars, pc, site, frameVars, loopVars, chatPrompt,
                   retryVars, callVars, outVars, cacheBefore, cacheHit>>

\* Clear Cache in the other session: CACHE_FILE.unlink()
OtherSessionClears ==
    /\ cacheFile.kind # "absent"
    /\ OtherSessionStep(NoFile, <<>>)

\* saveAnalysisToCache in the other session: open(CACHE_FILE, 'w') has
\* truncated the file and json.dump has written a part of the document
OtherSessionOpensCache ==
    /\ cacheFile.kind # "partial"
    /\ OtherSessionStep(PartialFile, <<>>)

\* saveAnalysisToCache in the other session: json.dump has written the whole
\* entry of its analysis of the records
OtherSessionWritesCache ==
    /\ cacheFile.kind = "partial"
    /\ processEmailData(db) # <<>>
    /\ \E text \in SiteTexts("final") :
          OtherSessionStep(CacheEntry(text, ContextSummary(processEmailData(db)),
                                      calculateDataHash(processEmailData(db)),
                                      processEmailData(db)),
                           processEmailData(db))

NextShared ==
    \/ OtherSessionClears
    \/ OtherSessionOpensCache
    \/ OtherSessionWritesCache
    \/ ChangeData
    \/ RunToExistsCheck
    \/ ReadAfterExists
    \/ ForceRefreshButton
    \/ BatchAttempt
    \/ FinalAttempt
    \/ Return

SpecShared == Init /\ [][NextShared]_vars

\* analyzeEmailBatch called directly, for every record count and batch size
InitBatch ==
    /\ db \in LongDataSets
    /\ cacheFile = NoFile /\ cacheSrc = <<>>
    /\ gemini_model = TRUE
    /\ analysis_results = "None" /\ email_context = "None" /\ data_hash = "None"
    /\ analysis_loaded = FALSE
    /\ conversation_history = <<>>
    /\ IdleFrame
    /\ prev = "none"

NextBatch ==
    \/ AnalyzeEmailBatchCall
    \/ BatchAttempt
    \/ FinalAttempt
    \/ Return

SpecBatch == InitBatch /\ [][NextBatch]_vars

\* the app and the command line program over a record source whose rows
\* may have a sent count that is zero, negative or NULL
InitData ==
    /\ db \in RawDataSets
    /\ cacheFile = NoFile /\ cacheSrc = <<>>
    /\ gemini_model = FALSE
    /\ analysis_results = "None" /\ email_context = "None" /\ data_hash = "None"
    /\ analysis_loaded = FALSE
    /\ conversation_history = <<>>
    /\ IdleFrame
    /\ prev = "none"

NextData ==
    \/ ChangeRawData
    \/ AutoLoad
    \/ RunButton
    \/ ForceRefreshButton
    \/ MainRun
    \/ BatchAttempt
    \/ FinalAttempt
    \/ Return

SpecData == InitData /\ [][NextData]_vars

\* a session whose first run succeeded, used for chat and critique only
InitChat ==
    /\ db = <<rowA>>
    /\ cacheFile = NoFile /\ cacheSrc = <<>>
    /\ gemini_model = TRUE
    /\ analysis_results = "t1"
    /\ email_context = ContextSummary(processEmailData(<<rowA>>))
    /\ data_hash = calculateDataHash(processEmailData(<<rowA>>))
    /\ analysis_loaded = TRUE
    /\ conversation_history = <<>>
    /\ IdleFrame
    /\ prev = "none"

NextChat ==
    \/ ChatTurn
    \/ ChatAttempt
    \/ CritiqueTurn
    \/ CritiqueAttempt
    \/ ClearChat
    \/ Return

SpecChat == InitChat /\ [][NextChat]_vars

\* non-forced runs of the app while the record source changes between them
InitHash ==
    /\ db \in HashDataSets
    /\ cacheFile = NoFile /\ cacheSrc = <<>>
    /\ gemini_model = FALSE
    /\ analysis_results = "None" /\ email_context = "None" /\ data_hash = "None"
    /\ analysis_loaded = FALSE
    /\ conversation_history = <<>>
    /\ IdleFrame
    /\ prev = "none"

NextHash ==
    \/ ChangeHashData
    \/ AutoLoad
    \/ RunButton
    \/ BatchAttempt
    \/ FinalAttempt
    \/ Return

SpecHash == InitHash /\ [][NextHash]_vars

(***************************************************************************)
(* Properties.                                                             *)
(***************************************************************************)
\* a retry loop is running or has just ended
InCallSite == site \in {"batch", "final", "chat", "critique"}

\* the error of the first generate_content call of the current retry loop,
\* NoOutcome while that call has not failed
FirstFailure ==
    IF waits # <<>> THEN waits[1].err
    ELSE IF pc = "returned" /\ attempt = 0 THEN raised
    ELSE NoOutcome

CeilDiv(n, b) == CHOOSE q \in 0..n : q * b >= n /\ (q - 1) * b < n

RECURSIVE ConcatRows(_)
ConcatRows(bs) == IF bs = <<>> THEN <<>> ELSE Head(bs).rows \o ConcatRows(Tail(bs))

\* C1: at every call site, when the first generation attempt fails with a
\* daily-quota error, that attempt is the only one (no wait, no retry) and the
\* error leaves the agent function as a daily-quota error.
C1_DailyQuotaNotRetried ==
    (InCallSite /\ FirstFailure.kind = "daily")
        => /\ pc = "returned"
           /\ attempt = 0
           /\ waits = <<>>
           /\ raised.kind = "daily"

\* C2: at every call site, when every attempt fails with a rate-limit error
\* the loop makes exactly maxRetries attempts and then raises that error; a
\* failed last attempt never ends in a returned text.
C2_RateLimitBudget ==
    /\ (InCallSite /\ pc = "gen") => attempt < maxRetries
    /\ (InCallSite /\ pc = "returned" /\ raised.kind = "rate"
          /\ \A k \in 1..Len(waits) : waits[k].err.kind = "rate")
        => /\ attempt + 1 = maxRetries
           /\ Len(waits) = maxRetries - 1
           /\ genCalls >= maxRetries
    /\ (InCallSite /\ pc = "returned" /\ lastOutcome.kind \notin {"ok", "none"})
        => /\ raised = lastOutcome
           /\ result = "None"
           /\ (caller = "run" => ret = "False")

C2_Witness ==
    /\ pc = "returned" /\ site = "final"
    /\ raised.kind = "rate"
    /\ Len(waits) = 2
    /\ \A k \in 1..Len(waits) : waits[k].err.kind = "rate"

InRun == caller = "run" /\ pc \in {"gen", "returned"}

\* C4: a non-forced run over non-empty records whose fingerprint equals the
\* data_hash of the persisted cache entry ends at once with the cached result
\* text and the cached context summary in the session, and makes no
\* generation call.
C4_CacheHitMakesNoCalls ==
    (/\ InRun /\ ~force_refresh /\ email_data # <<>>
     /\ cacheBefore.kind = "entry"
     /\ cacheBefore.data_hash = calculateDataHash(email_data))
        => /\ pc = "returned" /\ ret = "True"
           /\ cacheHit
           /\ genCalls = 0
           /\ analysis_results = cacheBefore.analysis_result
           /\ email_context = cacheBefore.email_context
           /\ data_hash = cacheBefore.data_hash
           /\ cacheFile = cacheBefore

C4_Witness ==
    /\ InRun /\ ~force_refresh /\ cacheHit
    /\ cacheBefore.kind = "entry"
    /\ cacheBefore.data_hash = calculateDataHash(email_data)
    /\ cacheSrc = email_data
    /\ analysis_results = "t2"
    /\ genCalls = 0

\* C5: when the persisted entry was computed from records R1 and the current
\* records R2 differ from R1, a non-forced run does not take the cached
\* result: it ends successfully only after at least one generation call.
C5_ChangedDataNotReused ==
    (/\ InRun /\ ~force_refresh /\ email_data # <<>>
     /\ cacheBefore.kind = "entry"
     /\ cacheSrc # email_data)
        => /\ ~cacheHit
           /\ (ret = "True" => genCalls >= 1)

\* C6: while a run is in progress, and when it has ended in failure, the
\* cache file is what it was when the run started; this holds whether the
\* failure comes before any batch, in a batch after others succeeded, or in
\* the synthesis call.
C6_FailedRunKeepsCache ==
    /\ (caller = "run" /\ pc = "gen") => cacheFile = cacheBefore
    /\ (caller = "run" /\ pc = "returned" /\ ret = "False")
        => /\ cacheFile = cacheBefore
           /\ saveOutcome = "none"

C6_Witness ==
    /\ caller = "run" /\ pc = "returned" /\ ret = "False"
    /\ cacheBefore.kind = "entry"
    /\ Len(allAnalyses) >= 1
    /\ raised.kind \in {"rate", "other"}
    /\ cacheFile = cacheBefore

\* C7: the fingerprint of the current records equals the fingerprint stored
\* with the persisted entry exactly when the current records are the records
\* the entry was computed from (same rows, same number, same order).
C7_FingerprintInjective ==
    (InRun /\ current_hash # "None" /\ cacheFile.kind = "entry")
        => (current_hash = cacheFile.data_hash <=> email_data = cacheSrc)

\* the concatenation of the rows of the first n batches
BatchedPrefix(n) == SubSeq(ranked, 1, IF n < Len(ranked) THEN n ELSE Len(ranked))

\* C8: for N >= 1 ranked records and batch size B >= 1 the loop forms
\* batches numbered 1, 2, ... each tagged with total ceil(N/B), each
\* non-empty and of at most B rows, each starting where the previous one
\* ended; once the loop is over there are ceil(N/B) of them and their
\* concatenation is the ranked sequence.
C8_BatchesPartitionRanked ==
    (caller = "direct" /\ batchSize >= 1 /\ Len(ranked) >= 1)
        => /\ ranked = sortByScore(email_data)
           /\ \A j \in 1..Len(batches) :
                 /\ batches[j].num = j
                 /\ batches[j].total = CeilDiv(Len(ranked), batchSize)
                 /\ batches[j].rows # <<>>
                 /\ Len(batches[j].rows) <= batchSize
                 /\ batches[j].rows =
                       SubSeq(ranked, (j - 1) * batchSize + 1,
                              (j - 1) * batchSize + Len(batches[j].rows))
                 /\ (j < Len(batches) => Len(batches[j].rows) = batchSize)
           /\ Len(batches) >= 1
           /\ Len(batches) <= CeilDiv(Len(ranked), batchSize)
           /\ ConcatRows(batches) = BatchedPrefix(Len(batches) * batchSize)
           /\ site = "final"
                => /\ Len(batches) = CeilDiv(Len(ranked), batchSize)
                   /\ ConcatRows(batches) = ranked

C8_Witness ==
    /\ caller = "direct" /\ site = "final" /\ pc = "returned"
    /\ Len(ranked) = 7 /\ batchSize = 3
    /\ Len(batches) = 3
    /\ Len(batches[3].rows) = 1
    /\ ranked # email_data
    /\ ConcatRows(batches) = ranked

\* a run that computed a new analysis and in which no generation call failed
CleanMissRun ==
    caller = "run" /\ pc = "returned" /\ ret = "True" /\ ~cacheHit /\ failures = 0

C10_OtherErrorNotRetried ==
    /\ \A k \in 1..Len(waits) : waits[k].err.kind # "other"
    /\ (InCallSite /\ lastOutcome.kind = "other")
        => /\ pc = "returned"
           /\ raised = lastOutcome
           /\ result = "None"
           /\ Len(waits) = attempt

C10_Witness ==
    /\ pc = "returned" /\ site = "critique"
    /\ raised.kind = "other"
    /\ genCalls = 1

\* the analysis loops of a run or of a direct call are in progress or over
InBatchAnalysis == caller \in {"run", "direct"} /\ site \in {"batch", "final"}

\* generation calls made so far by the retry loop in progress or just ended
LoopCalls == IF pc = "returned" THEN attempt + 1 ELSE attempt

\* C11: no retry loop makes more than maxRetries generation calls, whatever
\* fails; every loop counts its attempts from zero, so that a batch analysis
\* that has formed k batches has made at most maxRetries calls for each of
\* them and at most maxRetries synthesis calls: 3 * (k + 1) in total at most;
\* a chat turn or a critique makes at most maxRetries calls.
C11_AttemptBudget ==
    /\ InCallSite
        => /\ attempt <= maxRetries - 1
           /\ Len(waits) = attempt
           /\ LoopCalls <= maxRetries
    /\ (InCallSite /\ caller \in {"chat", "critique"}) => genCalls = LoopCalls
    /\ (InBatchAnalysis /\ batchSize >= 1)
        => /\ Len(batches) <= CeilDiv(Len(ranked), batchSize)
           /\ site = "batch"
                => genCalls <= maxRetries * (Len(batches) - 1) + LoopCalls
           /\ site = "final"
                => genCalls <= maxRetries * Len(batches) + LoopCalls
           /\ genCalls <= maxRetries * (CeilDiv(Len(ranked), batchSize) + 1)

C11_Witness ==
    /\ caller = "run" /\ pc = "returned" /\ site = "final"
    /\ Len(batches) = 3
    /\ raised.kind = "rate"
    /\ genCalls = maxRetries * (3 + 1)

\* the batch analysis has ended inside the per-batch loop
EndedInBatch == InBatchAnalysis /\ pc = "returned" /\ site = "batch"

\* C12: when the retry loop of batch j ends in an error (its budget used up,
\* or an error that is not retried), analyzeEmailBatch ends with that error:
\* batch j is the last batch formed, the failing call is the last generation
\* call, nothing is returned, a run reports failure and leaves the cache
\* file as it was, and the only step that follows is the handler's return
\* (no call for a later batch, no synthesis call).
C12_FailedBatchAbortsRun ==
    /\ [](EndedInBatch
            => /\ raised.kind \in {"rate", "daily", "other"}
               /\ raised = lastOutcome
               /\ (raised.kind = "other" \/ attempt = maxRetries - 1)
               /\ Len(batches) = batchNumOf(i, batchSize)
               /\ Len(allAnalyses) = Len(batches) - 1
               /\ result = "None"
               /\ (caller = "run"
                     => /\ ret = "False"
                        /\ cacheFile = cacheBefore
                        /\ saveOutcome = "none"))
    /\ [][EndedInBatch
            => /\ pc' = "idle"
               /\ genCalls' = 0
               /\ cacheFile' = cacheFile
               /\ analysis_results' = analysis_results]_vars

C12_Witness ==
    /\ EndedInBatch /\ caller = "run" /\ force_refresh
    /\ Len(ranked) = 7
    /\ Len(batches) = 2 /\ Len(allAnalyses) = 1
    /\ raised.kind = "rate" /\ attempt = 2
    /\ cacheBefore.kind = "entry"

\* the retry loop has failed twice, each time with a rate-limit error that
\* says "retry in 5s"
TwoHintsOfFive ==
    /\ InCallSite
    /\ Len(waits) = 2
    /\ \A k \in 1..2 : waits[k].err = Failure("rate", [tag |-> "secs", secs |-> 5])

\* ... and its third generation call has succeeded
ThirdAttemptSucceeded ==
    /\ TwoHintsOfFive
    /\ pc = "returned" /\ lastOutcome.kind = "ok"

RunMeasure ==
    IF caller = "run" /\ pc = "gen" /\ site = "batch"
    THEN maxRetries * (CeilDiv(Len(ranked), batchSize) - Len(batches))
         + maxRetries + (maxRetries - attempt)
    ELSE IF caller = "run" /\ pc = "gen" /\ site = "final"
    THEN maxRetries - attempt
    ELSE 0

\* C14: a run that has started ends, with True or False returned, whatever
\* the cache file held and however the generation calls succeed and fail;
\* every generation call of a run in progress, with the sleep that follows
\* it, lowers the number of calls the run can still make, which is never
\* negative: the run makes finitely many attempts and waits.
C14_RunTerminates ==
    /\ (caller = "run") ~> (caller = "run" /\ pc = "returned" /\ ret \in {"True", "False"})
    /\ [][(caller = "run" /\ pc = "gen")
            => /\ RunMeasure' < RunMeasure
               /\ RunMeasure' >= 0
               /\ genCalls' = genCalls + 1
               /\ Len(waits') <= maxRetries - 1]_vars

C14_Witness ==
    /\ caller = "run" /\ pc = "returned" /\ ret = "False"
    /\ cacheBefore.kind = "partial"
    /\ Len(batches) = 3 /\ site = "final"
    /\ genCalls = maxRetries * 4
    /\ Len(waits) = maxRetries - 1

\* the kinds of cache file that hold no entry loadCachedAnalysis can parse
NoEntryKinds == {"absent", "partial", "unreadable", "inaccessible"}

\* C15: loadCachedAnalysis raises on no file, so that no run ends with an
\* exception of the load; a non-forced run over non-empty records takes
\* the cached result exactly when the file holds an entry whose data_hash
\* is the current fingerprint, then with the values of that entry, and goes
\* on to the analysis as on an absent file when the file is missing,
\* unreadable or truncated.
C15_LoadNeverRaises ==
    /\ loadCachedAnalysis(cacheFile).kind \in {"absent", "entry"}
    /\ InRun => /\ ret # "raised"
                /\ raised.kind \notin {"OSError", "JSONDecodeError", "PermissionError"}
    /\ (InRun /\ ~force_refresh /\ email_data # <<>>)
        => /\ cacheHit <=> (/\ cacheBefore.kind = "entry"
                            /\ cacheBefore.data_hash = current_hash)
           /\ cacheHit => /\ analysis_results = cacheBefore.analysis_result
                          /\ email_context = cacheBefore.email_context
           /\ cacheBefore.kind \in NoEntryKinds
                => (pc = "gen" \/ genCalls >= 1 \/ uiMessage = "init_failed")

\* saveAnalysisToCache was called in this run and did not write the entry
SaveFailed ==
    caller = "run" /\ pc = "returned" /\ saveOutcome \in {"open_failed", "dump_failed"}

\* C16: when saveAnalysisToCache fails to write the entry, no exception
\* leaves it: the run returns True with no error shown, and the session
\* holds the result text, the context summary and the fingerprint of this
\* run; the file is left as it was when open() failed, and truncated when
\* json.dump failed.
C16_SaveFailureNotFatal ==
    SaveFailed
        => /\ ret = "True"
           /\ raised = NoOutcome
           /\ uiMessage = "none"
           /\ result \in Texts
           /\ analysis_results = result
           /\ email_context = ContextSummary(email_data)
           /\ data_hash = calculateDataHash(email_data)
           /\ saveOutcome = "open_failed" => cacheFile = cacheBefore
           /\ saveOutcome = "dump_failed" => cacheFile = PartialFile

C16_Witness ==
    /\ SaveFailed
    /\ saveOutcome = "dump_failed"
    /\ cacheBefore.kind = "entry"
    /\ cacheFile.kind = "partial"
    /\ ret = "True"
    /\ analysis_results = "t2"
    /\ cacheBefore.analysis_result = "t1"

\* a "Clear Cache" click has been handled, on a path the existence test
\* can answer for
Cleared == caller = "clear" /\ pc = "returned" /\ cacheBefore.kind # "inaccessible"

C18_NonPositiveBatchSizeRejected ==
    (caller = "direct" /\ batchSize <= 0 /\ pc # "idle")
        => /\ genCalls = 0
           /\ (pc = "returned" => ret = "raised")

\* the handler in progress read a record source with no row that was sent
EmptyWorkingSet ==
    \A k \in 1..Len(db) : "mcsent" \in db[k].nulls \/ db[k].mcsent <= 0

\* C19: when the record source has no row, or no row with sent > 0, a run
\* of the app ends at once reported as failed ("No email data found"), and
\* the command line program returns at once: the model is not initialized,
\* no generation call is issued, the cache file and the session's result are
\* left alone.
C19_EmptyWorkingSetFailsEarly ==
    /\ []((caller \in {"run", "main"} /\ EmptyWorkingSet)
            => /\ pc = "returned"
               /\ genCalls = 0 /\ site = "none"
               /\ cacheFile = cacheBefore /\ saveOutcome = "none"
               /\ (caller = "run"
                     => ret = "False" /\ uiMessage \in {"no_data", "load_failed"})
               /\ (caller = "main" => ret \in {"None", "raised"}))
    /\ [][(pc = "idle" /\ caller' \in {"run", "main"} /\ EmptyWorkingSet)
            => UNCHANGED <<gemini_model, cacheVars, resultVars>>]_vars

C19_Witness ==
    /\ caller = "run" /\ pc = "returned"
    /\ db = <<rowZ, rowNeg, rowNull>>
    /\ ret = "False" /\ uiMessage = "no_data"
    /\ ~gemini_model
    /\ genCalls = 0

\* the rows of the record source that were sent, read from the
\* source's own columns
SentCount ==
    Cardinality({ k \in 1..Len(db) : "mcsent" \notin db[k].nulls /\ db[k].mcsent > 0 })

AllSent(rows) == \A k \in 1..Len(rows) : rows[k].mcsent > 0 /\ rows[k].nulls = {}

\* C20: every record of the frame a run of the app or of the command line
\* program works on, of the ranked frame, of each batch put into a prompt
\* and of the rows the persisted fingerprint was computed from has a sent
\* count above zero; the frame that is fingerprinted and ranked holds
\* exactly the sent rows of the source, so a row whose sent count is zero,
\* negative or NULL is gone before the score orders the rows.
C20_OnlySentRecords ==
    /\ AllSent(cacheSrc)
    /\ caller \in {"run", "main"}
         => /\ AllSent(email_data)
            /\ AllSent(ranked)
            /\ \A j \in 1..Len(batches) : AllSent(batches[j].rows)
            /\ (email_data # <<>> => Len(email_data) = SentCount)
            /\ (site # "none"
                  => /\ ranked = sortByScore(email_data)
                     /\ Len(ranked) = SentCount)
            /\ (caller = "run" /\ current_hash # "None"
                  => current_hash = calculateDataHash(email_data))

C20_Witness ==
    /\ caller = "run" /\ site = "final" /\ pc = "returned" /\ ret = "True"
    /\ db = <<rowA, rowNeg, rowB, rowNull, rowC, rowZ, rowD>>
    /\ Len(ranked) = 4
    /\ Len(batches) = 2
    /\ cacheSrc = email_data

\* the record source holds a row whose opened, clicked or unsubscribed
\* count is NULL
HasMissingCount ==
    \E k \in 1..Len(db) : db[k].nulls \cap {"mcopened", "mcclicked", "mcunsub"} # {}

\* C21: a run of the app over a record source with a row whose opened,
\* clicked or unsubscribed count is missing ends with the data error
\* reported ("Failed to load email data"), and no row of the frame carries
\* a count put in place of the missing one.
C21_MissingCountReported ==
    (caller = "run" /\ pc = "returned" /\ HasMissingCount)
        => /\ ret = "False"
           /\ uiMessage = "load_failed"
           /\ email_data = <<>>

\* chatWithEmailExpert is running
InChat == caller = "chat" /\ site = "chat" /\ pc = "gen"

\* C22: while a chat turn is generating, its prompt holds the entries of the
\* history that preceded the question, the last 10 of them when there are
\* more, in their order and with the speaker of each; the question itself
\* is in the prompt once, as the current question, and not among the
\* entries.
C22_PromptKeepsLastTen ==
    InChat =>
        LET supplied == Len(conversation_history) - 1
            embedded == Len(chatPrompt.entries)
        IN  /\ embedded = IF supplied > 10 THEN 10 ELSE supplied
            /\ \A j \in 1..embedded :
                  /\ chatPrompt.entries[j].content
                        = conversation_history[supplied - embedded + j].content
                  /\ chatPrompt.entries[j].label = "User"
                        <=> conversation_history[supplied - embedded + j].role = "user"
            /\ conversation_history[supplied + 1] = UserEntry(chatPrompt.question)
            /\ \A j \in 1..embedded :
                  chatPrompt.entries[j] # [label |-> "User", content |-> chatPrompt.question]

C22_Witness ==
    /\ InChat
    /\ Len(conversation_history) = 13
    /\ Len(chatPrompt.entries) = 10
    /\ chatPrompt.entries[1].content = conversation_history[3].content
    /\ chatPrompt.entries[1].content # conversation_history[1].content
    /\ chatPrompt.question = "q7"

\* a forced run has returned True
ForcedRunSucceeded ==
    caller = "run" /\ force_refresh /\ pc = "returned" /\ ret = "True"

\* C23 as stated: a forced run never takes the cached result, makes
\* generation calls even when the cache entry matches the data, and when it
\* succeeds the cache file holds its result.
C23_ForcedRunOverwritesEntry ==
    /\ (caller = "run" /\ force_refresh) => ~cacheHit
    /\ ForcedRunSucceeded
         => /\ genCalls >= 1
            /\ cacheFile.kind = "entry"
            /\ cacheFile.analysis_result = result

\* C23 amended: a forced run never takes the cached result; when it
\* succeeds it has made one call per batch and the synthesis call, the
\* session holds the new result, and the cache file holds the new entry
\* when saveAnalysisToCache wrote it (the old file when open() failed, a
\* truncated file when json.dump failed).
C23_ForcedRunAnalysesAndSaves ==
    /\ (caller = "run" /\ force_refresh) => ~cacheHit
    /\ ForcedRunSucceeded
         => /\ genCalls >= Len(batches) + 1
            /\ Len(batches) >= 1
            /\ analysis_results = result
            /\ saveOutcome \in SaveOutcomes
            /\ cacheFile = saveAnalysisToCache(cacheBefore,
                              CacheEntry(result, ContextSummary(email_data),
                                         current_hash, email_data),
                              saveOutcome)
            /\ (saveOutcome = "written"
                  => cacheFile.kind = "entry" /\ cacheFile.analysis_result = result)

C23_Witness ==
    /\ ForcedRunSucceeded
    /\ cacheBefore.kind = "entry"
    /\ cacheBefore.data_hash = current_hash
    /\ cacheBefore.analysis_result = "t1"
    /\ saveOutcome = "written"
    /\ cacheFile.analysis_result = "t2"

\* processEmailData has run in the handler in progress
DataProcessed ==
    caller \in {"run", "main"} /\ pc # "idle" /\ uiMessage # "load_failed"
      /\ (caller = "main" /\ ret = "raised" => email_data # <<>>)

\* C24: once a handler has processed the record source, the open, click
\* and unsubscribe rates it computed for every row whose sent count is 0
\* (or NULL) are 0, and no rate it computed for any row is an infinity or
\* NaN.
C24_UnsentRowsHaveZeroRates ==
    DataProcessed =>
        \A k \in 1..Len(db) :
            LET r == numericRow(db[k])
                rates == rateColumns(r)
            IN  /\ r.mcsent = 0
                     => /\ rates.openRate = ZeroRate
                        /\ rates.clickRate = ZeroRate
                        /\ rates.unsubRate = ZeroRate
                /\ rates.openRate.kind = "finite"
                /\ rates.clickRate.kind = "finite"
                /\ rates.unsubRate.kind = "finite"

\* the rows of a sequence, with their multiplicities
RowBag(rows) ==
    [r \in { rows[k] : k \in 1..Len(rows) } |->
        Cardinality({ k \in 1..Len(rows) : rows[k] = r })]

\* C25: inside analyzeEmailBatch with a batch size of at least 1, the
\* ranked frame holds the rows of the frame by descending effectiveness
\* score; the analyses collected so far are those of batches 1, 2, ... in
\* that order, one per batch formed before the batch in progress; the
\* synthesis loop is entered only with the analyses of all ceil(N/B)
\* batches, still in order 1..ceil(N/B).
C25_RankedThenBatchesInOrder ==
    (InBatchAnalysis /\ batchSize >= 1)
        => /\ RowBag(ranked) = RowBag(email_data)
           /\ Len(ranked) = Len(email_data)
           /\ \A a \in 1..Len(ranked) : \A b \in a..Len(ranked) :
                 ScoresAtLeast(ranked[a], ranked[b])
           /\ \A j \in 1..Len(allAnalyses) :
                 /\ allAnalyses[j].num = j
                 /\ batches[j].num = j
           /\ (site = "batch"
                 => /\ Len(batches) = Len(allAnalyses) + 1
                    /\ batches[Len(batches)].rows
                          = SubSeq(ranked, i + 1,
                                   IF i + batchSize < Len(ranked)
                                   THEN i + batchSize ELSE Len(ranked)))
           /\ (site = "final"
                 => /\ Len(allAnalyses) = CeilDiv(Len(ranked), batchSize)
                    /\ Len(batches) = Len(allAnalyses)
                    /\ [j \in 1..Len(allAnalyses) |-> allAnalyses[j].num]
                          = [j \in 1..CeilDiv(Len(ranked), batchSize) |-> j])

C25_Witness ==
    /\ InBatchAnalysis /\ site = "final" /\ pc = "gen"
    /\ batchSize = 2
    /\ Len(ranked) = 5
    /\ Len(allAnalyses) = 3
    /\ ranked[1] = LongRow(5)
    /\ email_data[1] = LongRow(1)
    /\ genCalls = 3

\* C26: inside analyzeEmailBatch with a batch size of at least 1, one
\* inter-batch pause has been made after each analysed batch that is not the
\* last one: none before the first batch is analysed, as many as analysed
\* batches while a later batch is in progress, and ceil(N/B) - 1 when the
\* synthesis loop is entered over N >= 1 records.
C26_PausesBetweenBatchesOnly ==
    (InBatchAnalysis /\ batchSize >= 1)
        => /\ (allAnalyses = <<>> => pauses = 0)
           /\ (site = "batch" => pauses = Len(allAnalyses))
           /\ (site = "final" /\ Len(ranked) >= 1
                 => /\ pauses = CeilDiv(Len(ranked), batchSize) - 1
                    /\ pauses = Len(allAnalyses) - 1)

C26_Witness ==
    /\ InBatchAnalysis /\ site = "final" /\ pc = "returned"
    /\ failures = 0
    /\ batchSize = 3
    /\ Len(ranked) = 7
    /\ Len(allAnalyses) = 3
    /\ pauses = 2

\* the time slept so far in the current retry loop, in quarter seconds
RECURSIVE CumulativeWait(_)
CumulativeWait(ws) ==
    IF ws = <<>> THEN 0 ELSE Head(ws).slept + CumulativeWait(Tail(ws))

\* the current retry loop has ended with a raise after failing with a
\* rate-limit error at every attempt
AllAttemptsRateLimited ==
    /\ InCallSite /\ pc = "returned"
    /\ raised.kind = "rate"
    /\ \A k \in 1..Len(waits) : waits[k].err.kind = "rate"

\* C27: in every retry loop each failed attempt that is retried has been
\* followed by one sleep of a positive length, so there are as many sleeps
\* as retried attempts and never more than maxRetries - 1; a loop whose
\* attempts all failed with rate-limit errors has made maxRetries attempts
\* and exactly maxRetries - 1 sleeps, none of them after the last failure;
\* each sleep makes the time slept in the loop strictly larger.
C27_WaitAfterEachRetriedFailure ==
    /\ [](InCallSite
            => /\ Len(waits) = attempt
               /\ Len(waits) <= maxRetries - 1
               /\ \A k \in 1..Len(waits) : waits[k].slept > 0
               /\ (AllAttemptsRateLimited
                     => /\ Len(waits) = maxRetries - 1
                        /\ attempt + 1 = maxRetries))
    /\ [][/\ (InCallSite /\ site' = site /\ attempt' = attempt + 1)
               => /\ Len(waits') = Len(waits) + 1
                  /\ CumulativeWait(waits') > CumulativeWait(waits)
          /\ (pc = "gen" /\ pc' = "returned") => waits' = waits]_vars

C27_Witness ==
    /\ AllAttemptsRateLimited
    /\ site = "chat"
    /\ Len(waits) = 2
    /\ waits[1].err.hint = NoHint
    /\ waits[2].err.hint.tag = "secs"
    /\ CumulativeWait(waits) = Secs(initialRetrySeconds) + Secs(5 + hintMarginSeconds)

\* C28: a step of a run changes the session's analysis_results,
\* email_context or data_hash only when it is the step that ends the run
\* with True, either on the cached entry or after the synthesis call has
\* answered with every batch analysed; so a run that ends any other way
\* (no data, load error, initialization error, generation failure) leaves
\* the three values as they were when it started.
C28_FailedRunKeepsSessionResult ==
    [][(caller' = "run" /\ resultVars' # resultVars)
          => /\ pc' = "returned"
             /\ ret' = "True"
             /\ raised' = NoOutcome
             /\ data_hash' = current_hash'
             /\ \/ cacheHit' /\ genCalls' = 0
                \/ /\ site = "final"
                   /\ lastOutcome'.kind = "ok"
                   /\ analysis_results' = lastOutcome'.text
                   /\ Len(allAnalyses) = CeilDiv(Len(ranked), appBatchSize)]_vars

C28_Witness ==
    /\ caller = "run" /\ pc = "returned" /\ ret = "False"
    /\ raised.kind = "rate"
    /\ failures >= maxRetries
    /\ analysis_results = "t1"
    /\ data_hash # "None"
    /\ current_hash # "None"
    /\ data_hash # current_hash

\* C29: a run that takes the cached result leaves the session's model
\* handle as it was and makes no generation call; a chat turn or a critique
\* started while the handle is missing ends at once with a warning, makes
\* no generation call and leaves the conversation history unchanged; the
\* handle goes from missing to present only in the step that starts the
\* batch analysis of a run, which is a run that was forced or found no
\* usable cache entry.
C29_ModelHandleOnlyFromAnalysis ==
    /\ []((caller = "run" /\ cacheHit) => (pc = "returned" /\ genCalls = 0))
    /\ []((caller \in {"chat", "critique"} /\ ~gemini_model)
            => /\ pc = "returned"
               /\ genCalls = 0
               /\ site = "none")
    /\ [][/\ (caller' = "run" /\ cacheHit') => gemini_model' = gemini_model
          /\ (caller' \in {"chat", "critique"} /\ ~gemini_model)
               => /\ conversation_history' = conversation_history
                  /\ gemini_model' = gemini_model
          /\ (~gemini_model /\ gemini_model')
               => /\ pc = "idle" /\ caller' = "run"
                  /\ ~cacheHit'
                  /\ site' \in {"batch", "final"}
                  /\ \/ force_refresh'
                     \/ ~CacheUsable(loadCachedAnalysis(cacheFile), current_hash')]_vars

C29_Witness ==
    /\ caller = "chat" /\ pc = "returned"
    /\ ~gemini_model
    /\ analysis_results = "t1"
    /\ cacheFile.kind = "entry"
    /\ conversation_history = <<>>
    /\ genCalls = 0

\* user, assistant, user, assistant, ...
Alternates(history) ==
    \A k \in 1..Len(history) :
        history[k].role = IF k % 2 = 1 THEN "user" ELSE "assistant"

IsPrefix(a, b) == Len(a) <= Len(b) /\ SubSeq(b, 1, Len(a)) = a

\* C30: the conversation history always alternates user, assistant from a
\* user entry; its length is even whenever no chat turn is generating, so
\* after every handler; a chat turn with a model appends the question when
\* it starts and one assistant entry when it ends, the answer or the error
\* message; a critique appends the request and the answer together when it
\* succeeds and nothing otherwise; nothing else but "Clear Chat History",
\* which empties it, changes the history.
C30_HistoryAlternates ==
    /\ [](/\ Alternates(conversation_history)
          /\ (Len(conversation_history) % 2 = 1) <=> InChat
          /\ (caller = "chat" /\ pc = "returned" /\ gemini_model)
                => /\ Len(conversation_history) >= 2
                   /\ conversation_history[Len(conversation_history) - 1]
                         = UserEntry(chatPrompt.question)
                   /\ conversation_history[Len(conversation_history)]
                         = AssistantEntry(IF raised = NoOutcome THEN result
                                          ELSE ChatErrorMessage(raised)))
    /\ [][/\ (caller' = "chat" /\ conversation_history' # conversation_history)
               => /\ IsPrefix(conversation_history, conversation_history')
                  /\ Len(conversation_history') = Len(conversation_history) + 1
                  /\ (pc = "idle" \/ pc' = "returned")
          /\ (caller' = "chat" /\ pc = "gen" /\ pc' = "returned")
               => Len(conversation_history') = Len(conversation_history) + 1
          /\ (caller' = "critique" /\ conversation_history' # conversation_history)
               => /\ pc = "gen" /\ pc' = "returned"
                  /\ lastOutcome'.kind = "ok"
                  /\ conversation_history' = conversation_history
                        \o <<UserEntry("analyze this email"), AssistantEntry(result')>>
          /\ (caller' = "critique" /\ pc = "gen" /\ pc' = "returned"
                /\ lastOutcome'.kind = "ok")
               => Len(conversation_history') = Len(conversation_history) + 2
          /\ (caller' \notin {"chat", "critique"}
                /\ conversation_history' # conversation_history)
               => conversation_history' = <<>>]_vars

C30_Witness ==
    /\ caller = "chat" /\ pc = "returned"
    /\ Len(conversation_history) = 6
    /\ raised.kind = "daily"
    /\ conversation_history[2] = AssistantEntry("t1")
    /\ conversation_history[3] = UserEntry("analyze this email")
    /\ conversation_history[6] = AssistantEntry("daily_limit")

\* runCompleteAnalysis has returned or has been left by an exception
RunEnded == caller = "run" /\ pc = "returned"

\* C31: every run of runCompleteAnalysis ends with a return of True or
\* False; no exception leaves it, whatever the record source, the cache
\* file, the model initialization and the generation calls do.
C31_RunNeverRaises ==
    RunEnded => /\ ret \in {"True", "False"}
                /\ (ret = "False" => uiMessage # "none")

\* C32: the automatic analysis is started at most once per session. A run
\* is only ever in progress or ended with analysis_loaded set; the step that
\* sets the flag is the start of the automatic (unforced) run; and the flag
\* is reset only when the session state is created anew, so after a failed
\* automatic run the handlers that follow start no automatic analysis.
C32_AutoLoadOncePerSession ==
    /\ [](caller = "run" => analysis_loaded)
    /\ [][ /\ (~analysis_loaded /\ analysis_loaded'
                => pc = "idle" /\ caller' = "run" /\ ~force_refresh')
           /\ (analysis_loaded /\ ~analysis_loaded'
                => /\ pc = "idle" /\ pc' = "idle"
                   /\ analysis_results' = "None" /\ data_hash' = "None"
                   /\ conversation_history' = <<>> /\ ~gemini_model')
           /\ (~analysis_loaded /\ ~analysis_loaded' => pc' = "idle") ]_vars

\* no run of the session has succeeded, and a later chat handler has ended
\* without starting an analysis
C32_Witness ==
    /\ caller = "chat" /\ pc = "returned"
    /\ analysis_loaded
    /\ analysis_results = "None" /\ data_hash = "None"

\* loadCachedAnalysis is between its existence check and its read
LoadInProgress == caller = "run" /\ pc = "exists"

\* C33: whatever another session does to the cache file before the
\* existence check of loadCachedAnalysis or between the check and the read
\* (deleting it, truncating it, leaving it partly written, completing it),
\* no exception leaves the load, and the run takes the cached-result path
\* only on a complete entry, read as it stands, whose fingerprint is the one
\* of the current records; on a missing or partly written file it goes on
\* to the analysis.
C33_LoadSurvivesConcurrentWriter ==
    /\ [](caller = "run" /\ pc = "returned" => ret \in {"True", "False"})
    /\ [][ LoadInProgress /\ ~LoadInProgress'
             => /\ ret' # "raised"
                /\ cacheFile' = cacheFile
                /\ cacheHit' => /\ cacheFile.kind = "entry"
                                /\ cacheFile.data_hash = current_hash'
                                /\ analysis_results' = cacheFile.analysis_result
                                /\ email_context' = cacheFile.email_context
                                /\ analysis_results' # "None"
                /\ cacheFile.kind \in {"absent", "partial"}
                      => ~cacheHit' /\ (pc' = "gen" \/ uiMessage' = "init_failed") ]_vars

\* the existence check saw an entry for the current records; the other
\* session then deleted the file or began to rewrite it; the read found
\* that, and the run has gone on to its first generation call
C33_Witness ==
    /\ caller = "run" /\ pc = "gen" /\ genCalls = 0
    /\ cacheBefore.kind = "entry" /\ cacheBefore.data_hash = current_hash
    /\ cacheFile.kind \in {"absent", "partial"}
    /\ ~cacheHit

====
